---------------------------- MODULE Spec2Model ----------------------------
(***************************************************************************)
(* Model of src/cpu/simple_q10n.hpp: the rounding primitive, the           *)
(* saturation layer and the four quantization operators (qz_a1b0, qz_a1,   *)
(* qz_b0, qz).                                                             *)
(*                                                                         *)
(* Values.  A value of an integral type (int8_t, uint8_t, int32_t) is an   *)
(* integer.  A value of a floating type (float, double, bfloat16_t,        *)
(* float16_t) is a record [k, m, e]:                                       *)
(*     k = "fin"  the number m * 2^e, m odd, or m = 0 and e = 0            *)
(*     k = "inf"  the infinity of sign m                                   *)
(*     k = "nan"  a NaN                                                    *)
(* Zero carries no sign: the comparisons of the claims are numeric         *)
(* (-0.0 == +0.0 in C++).  The state holds every value as such a record:   *)
(* an integer i of an integral type is held as [k = "int", m = i, e = 0].  *)
(***************************************************************************)
EXTENDS Integers, Sequences, FiniteSets, TLC

(***************************************************************************)
(* Integer helpers                                                         *)
(***************************************************************************)
Abs(n) == IF n < 0 THEN -n ELSE n

Sgn(n) == IF n < 0 THEN -1 ELSE IF n > 0 THEN 1 ELSE 0

Min2(a, b) == IF a <= b THEN a ELSE b

RECURSIVE Pow2(_)
Pow2(n) == IF n <= 0 THEN 1 ELSE 2 * Pow2(n - 1)

RECURSIVE BitLen(_)
BitLen(n) == IF n = 0 THEN 0 ELSE 1 + BitLen(n \div 2)

(***************************************************************************)
(* Floating values                                                         *)
(***************************************************************************)
Fin(m, e) == [k |-> "fin", m |-> m, e |-> e]

NaN == [k |-> "nan", m |-> 0, e |-> 0]

Inf(s) == [k |-> "inf", m |-> s, e |-> 0]

Zero == Fin(0, 0)

\* the record of m * 2^e with the trailing zero bits of m moved to e
RECURSIVE Norm(_, _)
Norm(m, e) ==
    IF m = 0 THEN Zero
    ELSE IF m % 2 = 0 THEN Norm(m \div 2, e + 1)
    ELSE Fin(m, e)

IsFin(v) == v.k = "fin"

IsNaN(v) == v.k = "nan"

\* position of the leading bit of a nonzero finite value
Top(v) == BitLen(Abs(v.m)) + v.e

\* n / d (d a power of two) rounded to an integer under rounding control mode
RoundDiv(n, d, mode) ==
    LET q == n \div d
        r == n % d
    IN  IF r = 0 THEN q
        ELSE IF mode = "down" THEN q
        ELSE IF mode = "up" THEN q + 1
        ELSE IF mode = "zero" THEN (IF n >= 0 THEN q ELSE q + 1)
        ELSE IF 2 * r < d THEN q
        ELSE IF 2 * r > d THEN q + 1
        ELSE IF q % 2 = 0 THEN q ELSE q + 1

\* m * 2^e rounded to p significant bits under rounding control mode
FRound(m, e, p, mode) ==
    LET L == BitLen(Abs(m))
    IN  IF L <= p THEN Norm(m, e)
        ELSE Norm(RoundDiv(m, Pow2(L - p), mode), e + (L - p))

\* |a| < |b| for nonzero finite values
MagLess(a, b) ==
    IF Top(a) # Top(b) THEN Top(a) < Top(b)
    ELSE LET lo == Min2(a.e, b.e)
         IN  Abs(a.m) * Pow2(a.e - lo) < Abs(b.m) * Pow2(b.e - lo)

\* the C++ operator < on floating values (false when either is a NaN)
FLess(a, b) ==
    IF IsNaN(a) \/ IsNaN(b) THEN FALSE
    ELSE IF a.k = "inf" THEN a.m < 0 /\ ~(b.k = "inf" /\ b.m < 0)
    ELSE IF b.k = "inf" THEN b.m > 0
    ELSE IF Sgn(a.m) # Sgn(b.m) THEN Sgn(a.m) < Sgn(b.m)
    ELSE IF a.m = 0 THEN FALSE
    ELSE IF a.m > 0 THEN MagLess(a, b)
    ELSE MagLess(b, a)

\* the float product a * b
FMul(a, b, mode) ==
    IF IsNaN(a) \/ IsNaN(b) THEN NaN
    ELSE IF a.k = "inf" \/ b.k = "inf"
         THEN (IF a.m = 0 \/ b.m = 0 THEN NaN ELSE Inf(Sgn(a.m) * Sgn(b.m)))
    ELSE FRound(a.m * b.m, a.e + b.e, 24, mode)

\* the float sum of two nonzero finite values: the larger operand is aligned
\* to 27 bits, the smaller is shifted under it with a sticky bit
AddFin(a, b, mode) ==
    LET hi == IF Top(a) >= Top(b) THEN a ELSE b
        lo == IF Top(a) >= Top(b) THEN b ELSE a
        Lh == BitLen(Abs(hi.m))
        eA == hi.e - (27 - Lh)
        A  == hi.m * Pow2(27 - Lh)
        d  == eA - lo.e
        Bmag == IF d <= 0 THEN Abs(lo.m) * Pow2(-d)
                ELSE IF d > 30 THEN 0
                ELSE Abs(lo.m) \div Pow2(d)
        sticky == IF d <= 0 THEN 0
                  ELSE IF d > 30 THEN 1
                  ELSE IF Abs(lo.m) % Pow2(d) # 0 THEN 1 ELSE 0
        S == 2 * A + Sgn(lo.m) * (2 * Bmag + sticky)
    IN  FRound(S, eA - 1, 24, mode)

\* the float sum a + b
FAdd(a, b, mode) ==
    IF IsNaN(a) \/ IsNaN(b) THEN NaN
    ELSE IF a.k = "inf" /\ b.k = "inf" THEN (IF a.m = b.m THEN a ELSE NaN)
    ELSE IF a.k = "inf" THEN a
    ELSE IF b.k = "inf" THEN b
    ELSE IF a.m = 0 THEN b
    ELSE IF b.m = 0 THEN a
    ELSE AddFin(a, b, mode)


(***************************************************************************)
(* Types                                                                   *)
(***************************************************************************)
IntegralTypes == {"int8_t", "uint8_t", "int32_t"}

FloatTypes == {"float", "bfloat16_t", "float16_t"}

ElementTypes == IntegralTypes \cup FloatTypes

is_integral(t) == t \in IntegralTypes

INT32_MIN == -2147483647 - 1

INT32_MAX == 2147483647

\* nstl::numeric_limits<data_t>::lowest()
numeric_limits_lowest(t) ==
    CASE t = "int8_t"  -> -128
      [] t = "uint8_t" -> 0
      [] t = "int32_t" -> INT32_MIN

\* nstl::numeric_limits<data_t>::max()
numeric_limits_max(t) ==
    CASE t = "int8_t"  -> 127
      [] t = "uint8_t" -> 255
      [] t = "int32_t" -> INT32_MAX

\* is type a's range fully contained in type b's range (integer types; every
\* type is a subset of itself, every integer type of float)
is_subset(a, b) ==
    IF a = b THEN TRUE
    ELSE IF is_integral(a) /\ is_integral(b)
         THEN /\ numeric_limits_lowest(b) <= numeric_limits_lowest(a)
              /\ numeric_limits_max(a) <= numeric_limits_max(b)
    ELSE is_integral(a) /\ b = "float"

(***************************************************************************)
(* Conversions                                                             *)
(***************************************************************************)
\* (data_t)v with the 8-bit destination taken as unsigned whatever its sign
cast_int_unsigned(t, v) ==
    IF t = "int32_t" THEN v ELSE v % 256

\* (data_t)v for an integer v: the value modulo 2^width
cast_int(t, v) ==
    CASE t = "int8_t"  -> (((v % 256) + 128) % 256) - 128
      [] t = "uint8_t" -> v % 256
      [] t = "int32_t" -> v

\* (float)i for an integer i
IntToFloat(i, mode) ==
    IF i = INT32_MIN THEN Fin(-1, 31) ELSE FRound(i, 0, 24, mode)

\* (double)i for an integer i: exact
IntToDouble(i) == Norm(i, 0)

\* a finite value lies strictly inside (-2^31, 2^31), or is -2^31
InInt32(v) == v.m = 0 \/ Top(v) <= 31 \/ (v.m = -1 /\ v.e = 31)

\* a finite value inside the int range, rounded to an integer
RoundToInt(v, mode) ==
    IF v.m = -1 /\ v.e = 31 THEN INT32_MIN
    ELSE IF v.e >= 0 THEN v.m * Pow2(v.e)
    ELSE RoundDiv(v.m, Pow2(-v.e), mode)

\* what a float -> int conversion outside the int range yields, where the
\* language leaves it undefined: the integer indefinite 0x80000000 of the x86
\* conversion instructions, or the saturated value (0 for a NaN)
UBOutcomes == {"indefinite", "saturating"}

UBResult(v, u) ==
    IF u = "indefinite" THEN INT32_MIN
    ELSE IF IsNaN(v) THEN 0
    ELSE IF v.m > 0 THEN INT32_MAX
    ELSE INT32_MIN

\* (data_t)v for a floating v and an integral data_t: truncation; undefined
\* (outcome u) when the truncated value is not a value of data_t
FloatToInt(t, v, u) ==
    IF ~IsFin(v) THEN cast_int(t, UBResult(v, u))
    ELSE IF ~InInt32(v) THEN cast_int(t, UBResult(v, u))
    ELSE LET i == RoundToInt(v, "zero")
         IN  IF numeric_limits_lowest(t) <= i /\ i <= numeric_limits_max(t)
             THEN i ELSE cast_int(t, UBResult(v, u))

\* float -> bfloat16_t: 8 significant bits, round to nearest even
ToBF16(v) == IF IsFin(v) THEN FRound(v.m, v.e, 8, "nearest") ELSE v

\* float -> float16_t: 11 significant bits, round to nearest even, infinity
\* from 65520 on
ToF16(v) ==
    IF ~IsFin(v) THEN v
    ELSE LET r == FRound(v.m, v.e, 11, "nearest")
         IN  IF r.m # 0 /\ Top(r) > 16 THEN Inf(Sgn(r.m)) ELSE r

\* a value of type t as a float (the 16-bit formats widen exactly)
ToFloat(t, v, mode) == IF is_integral(t) THEN IntToFloat(v, mode) ELSE v

\* (to)v for a float v and a floating type to
FloatTo(to, v) ==
    CASE to = "bfloat16_t" -> ToBF16(v)
      [] to = "float16_t"  -> ToF16(v)
      [] OTHER             -> v

(***************************************************************************)
(* Rounding primitive                                                      *)
(***************************************************************************)
\* mxcsr_round(f): with DNNL_X64 the conversion instruction, which returns
\* the integer indefinite 0x80000000 for a NaN, an infinity or a value
\* outside the int range; otherwise (int)nearbyintf(f), undefined there
mxcsr_round(f, mode, x64, u) ==
    IF IsFin(f) /\ InInt32(f) THEN RoundToInt(f, mode)
    ELSE IF x64 THEN INT32_MIN
    ELSE UBResult(f, u)

(***************************************************************************)
(* Saturation layer                                                        *)
(***************************************************************************)
\* (acc_t)bound for a limit of data_t
cast_bound(acc, b) ==
    CASE acc = "float"  -> IntToFloat(b, "nearest")
      [] acc = "double" -> IntToDouble(b)
      [] OTHER          -> cast_int(acc, b)

\* a < b in type acc
less(acc, a, b) == IF is_integral(acc) THEN a < b ELSE FLess(a, b)

\* the two compares of the integral saturate and of the double overload
clamp(data_t, acc, x) ==
    LET lo == cast_bound(acc, numeric_limits_lowest(data_t))
        hi == cast_bound(acc, numeric_limits_max(data_t))
        v1 == IF less(acc, x, lo) THEN lo ELSE x
    IN  IF less(acc, hi, v1) THEN hi ELSE v1

\* saturate<data_t, acc_t> for an integral data_t
saturate_integral(data_t, acc, x, u) ==
    LET v == clamp(data_t, acc, x)
    IN  IF is_integral(acc) THEN cast_int(data_t, v)
        ELSE FloatToInt(data_t, v, u)

\* saturate<data_t, acc_t> for a non-integral data_t: the cast alone
saturate_nonintegral(data_t, acc, x, mode) ==
    FloatTo(data_t, ToFloat(acc, x, mode))

\* double saturate<data_t>(const double &)
saturate_double(data_t, x) == clamp(data_t, "double", x)

\* saturate<int8_t, uint8_t> with the compare against 128 instead of 127
saturate_s8_u8_128(x) == cast_int("int8_t", IF x <= 128 THEN x ELSE 127)

\* saturate<int8_t, uint8_t>
saturate_s8_u8(x) == cast_int("int8_t", IF x <= 127 THEN x ELSE 127)

\* saturate<uint8_t, int8_t>
saturate_u8_s8(x) == cast_int("uint8_t", IF x >= 0 THEN x ELSE 0)

\* saturate<data_t>(x) for x of type acc, as overload resolution selects it
saturate(data_t, acc, x, mode, u) ==
    IF data_t = "int8_t" /\ acc = "uint8_t" THEN saturate_s8_u8(x)
    ELSE IF data_t = "uint8_t" /\ acc = "int8_t" THEN saturate_u8_s8(x)
    ELSE IF is_integral(data_t) THEN saturate_integral(data_t, acc, x, u)
    ELSE saturate_nonintegral(data_t, acc, x, mode)

\* out_round<int>(float)
out_round_int(v, mode, x64, u) == mxcsr_round(v, mode, x64, u)

\* round_and_saturate<out_t>(f)
round_and_saturate(out_t, f, mode, x64, u) ==
    saturate(out_t, "int32_t", out_round_int(f, mode, x64, u), mode, u)

(***************************************************************************)
(* Quantization operators                                                  *)
(***************************************************************************)
\* qz_a1b0<in_t, out_t>::operator()(in)
qz_a1b0(in_t, out_t, in, mode, x64, u) ==
    IF is_subset(in_t, out_t)
    THEN (IF is_integral(out_t) THEN cast_int(out_t, in)
          ELSE FloatTo(out_t, ToFloat(in_t, in, mode)))
    ELSE IF is_integral(in_t) THEN saturate(out_t, in_t, in, mode, u)
    ELSE round_and_saturate(out_t, ToFloat(in_t, in, mode), mode, x64, u)

\* (float)in + beta * out
a1_value(in_t, out_t, in, out, beta, mode) ==
    FAdd(ToFloat(in_t, in, mode),
         FMul(beta, ToFloat(out_t, out, mode), mode), mode)

\* qz_a1<in_t, out_t>::operator()(in, out, beta)
qz_a1(in_t, out_t, in, out, beta, mode, x64, u) ==
    IF out_t = "float" THEN a1_value(in_t, out_t, in, out, beta, mode)
    ELSE round_and_saturate(out_t,
             a1_value(in_t, out_t, in, out, beta, mode), mode, x64, u)

\* qz_b0 without its float specialization: the float destination rounds and
\* saturates like the others
qz_b0_generic(in_t, out_t, in, alpha, mode, x64, u) ==
    round_and_saturate(out_t,
        FMul(alpha, ToFloat(in_t, in, mode), mode), mode, x64, u)

\* qz_b0<in_t, out_t>::operator()(in, alpha)
qz_b0(in_t, out_t, in, alpha, mode, x64, u) ==
    IF out_t = "float" THEN FMul(alpha, ToFloat(in_t, in, mode), mode)
    ELSE round_and_saturate(out_t,
             FMul(alpha, ToFloat(in_t, in, mode), mode), mode, x64, u)

\* alpha * in + (beta ? beta * out : 0)
affine(in_t, out_t, in, out, alpha, beta, mode) ==
    FAdd(FMul(alpha, ToFloat(in_t, in, mode), mode),
         IF beta # Zero THEN FMul(beta, ToFloat(out_t, out, mode), mode)
         ELSE Zero, mode)

\* the type pairs with a 16-bit float specialization of qz
qz_16bit_specialized(in_t, out_t) ==
    /\ out_t \in {"bfloat16_t", "float16_t"}
    /\ in_t \in {out_t, "float"}

\* qz<in_t, out_t>::operator()(in, out, alpha, beta)
qz(in_t, out_t, in, out, alpha, beta, mode, x64, u) ==
    IF qz_16bit_specialized(in_t, out_t)
    THEN FloatTo(out_t, affine(in_t, out_t, in, out, alpha, beta, mode))
    ELSE IF out_t = "float"
    THEN affine(in_t, out_t, in, out, alpha, beta, mode)
    ELSE round_and_saturate(out_t,
             affine(in_t, out_t, in, out, alpha, beta, mode), mode, x64, u)

(***************************************************************************)
(* Inputs                                                                  *)
(***************************************************************************)
\* how far around each range boundary the inputs are drawn
Near == 1

Around(c) == {c + d : d \in (-Near)..Near}

\* every value of an 8-bit type
AllValues(t) == numeric_limits_lowest(t)..numeric_limits_max(t)

Int32Values ==
    Around(INT32_MIN + Near) \cup Around(-129) \cup Around(0) \cup Around(127)
        \cup Around(255) \cup Around(16777217) \cup Around(INT32_MAX - Near)

\* c - Near/2 .. c + Near/2 in steps of one half
HalfAround(c) == {Norm(2 * c + d, -1) : d \in (-Near)..Near}

One == Fin(1, 0)

\* 200.4f and -5.6f
F200_4 == Fin(6566707, -15)

Fm5_6 == Fin(-11744051, -21)

FloatValues ==
    {NaN, Inf(1), Inf(-1), F200_4, Fm5_6}
        \cup HalfAround(-128) \cup HalfAround(0) \cup HalfAround(2)
        \cup HalfAround(127) \cup HalfAround(255)
        \cup {Fin(3, 0), Fin(15, -1), Fin(16777215, 7), Fin(1, 31), Fin(3, 30),
              Fin(-1, 31), Fin(-8388609, 8), Fin(-1, 32)}

DoubleValues == FloatValues \cup {IntToDouble(i) : i \in Int32Values}

\* the accumulator values saturate is applied to
AccValues(data_t, acc) ==
    CASE acc = "float"   -> FloatValues
      [] acc = "int32_t" -> Int32Values
      [] OTHER           -> AllValues(acc)

\* the accumulator types saturate<data_t> is applied to
AccTypes(data_t) ==
    {"int32_t", "float"}
        \cup (IF data_t = "int8_t" THEN {"uint8_t"} ELSE {})
        \cup (IF data_t = "uint8_t" THEN {"int8_t"} ELSE {})

\* the operands of the quantization operators
QValues(t) ==
    CASE t = "int8_t"  -> {-128, -1, 100, 127}
      [] t = "uint8_t" -> {0, 100, 200, 255}
      [] t = "int32_t" -> {INT32_MIN, -129, 3, 16777217, INT32_MAX}
      [] t = "float"   -> {NaN, Inf(1), One, Fin(3, 0), Fin(5, -1),
                           Fin(-11, -1), Fin(3, 30)}
      [] OTHER         -> {NaN, Inf(-1), One, Fin(5, -1), Fin(25, 2)}

\* the previous outputs
OutValues(t) ==
    CASE t = "int8_t"  -> {-128, 50}
      [] t = "uint8_t" -> {0, 50}
      [] t = "int32_t" -> {-129, 50}
      [] OTHER         -> {NaN, Inf(1), Fin(5, -1)}

Alphas == {One, Fin(5, -1), Fin(-1, 0), Fin(1, 25)}

Betas == {Zero, Fin(1, -1), One}

RoundingModes == {"nearest", "down", "up", "zero"}

(***************************************************************************)
(* State: the rounding control of the calling thread, the build, and the   *)
(* last call with its operands and its result                              *)
(***************************************************************************)
VARIABLES pc, rc, x64, op, in_t, out_t, in, out, alpha, beta, res, first

vars == <<pc, rc, x64, op, in_t, out_t, in, out, alpha, beta, res, first>>

Init ==
    /\ pc = "idle"
    /\ rc \in RoundingModes
    /\ x64 \in BOOLEAN
    /\ op = "none"
    /\ in_t = "float"
    /\ out_t = "float"
    /\ in = Zero
    /\ out = Zero
    /\ alpha = One
    /\ beta = Zero
    /\ res = Zero
    /\ first = <<>>

\* an unused previous output of type t
NoOut(t) == IF is_integral(t) THEN 0 ELSE Zero

\* a value of type t as the state holds it, and back
Box(t, v) == IF is_integral(t) THEN [k |-> "int", m |-> v, e |-> 0] ELSE v

Val(b) == IF b.k = "int" THEN b.m ELSE b

\* saturate<data_t>(x), x of type acc_t
Saturate ==
    /\ pc = "idle"
    /\ \E d \in ElementTypes : \E a \in AccTypes(d) :
       \E x \in AccValues(d, a) : \E u \in UBOutcomes :
          /\ pc' = "done"
          /\ op' = "saturate"
          /\ in_t' = a
          /\ out_t' = d
          /\ in' = Box(a, x)
          /\ out' = Box(d, NoOut(d))
          /\ alpha' = One
          /\ beta' = Zero
          /\ res' = Box(d, saturate(d, a, x, rc, u))
          /\ first' = <<>>
          /\ UNCHANGED <<rc, x64>>

\* saturate<data_t>(saturate<data_t>(x)): the result saturated again, as a
\* value of data_t or, for the cross-sign pair, through the fast path again
SaturateAgain ==
    /\ pc = "done"
    /\ op = "saturate"
    /\ is_integral(out_t)
    /\ \E a \in {out_t} \cup (IF is_integral(in_t) /\ in_t # "int32_t"
                              THEN {in_t} ELSE {}) :
       \E u \in UBOutcomes :
          res' = Box(out_t, saturate(out_t, a, cast_int(a, Val(res)),
                                     rc, u))
    /\ first' = <<res>>
    /\ op' = "saturate_twice"
    /\ UNCHANGED <<pc, rc, x64, in_t, out_t, in, out, alpha, beta>>

\* saturate<data_t>(const double &)
SaturateDouble ==
    /\ pc = "idle"
    /\ \E d \in IntegralTypes : \E x \in DoubleValues :
          /\ pc' = "done"
          /\ op' = "saturate_double"
          /\ in_t' = "double"
          /\ out_t' = d
          /\ in' = x
          /\ out' = Box(d, 0)
          /\ alpha' = One
          /\ beta' = Zero
          /\ res' = saturate_double(d, x)
          /\ first' = <<>>
          /\ UNCHANGED <<rc, x64>>

\* round_and_saturate<out_t>(f)
RoundAndSaturate ==
    /\ pc = "idle"
    /\ \E d \in ElementTypes : \E f \in FloatValues : \E u \in UBOutcomes :
          /\ pc' = "done"
          /\ op' = "round_and_saturate"
          /\ in_t' = "float"
          /\ out_t' = d
          /\ in' = f
          /\ out' = Box(d, NoOut(d))
          /\ alpha' = One
          /\ beta' = Zero
          /\ res' = Box(d, round_and_saturate(d, f, rc, x64, u))
          /\ first' = <<>>
          /\ UNCHANGED <<rc, x64>>

\* qz_a1b0<in_t, out_t>()(in)
QzA1B0 ==
    /\ pc = "idle"
    /\ \E it \in ElementTypes : \E ot \in ElementTypes :
       \E i \in QValues(it) : \E u \in UBOutcomes :
          /\ pc' = "done"
          /\ op' = "qz_a1b0"
          /\ in_t' = it
          /\ out_t' = ot
          /\ in' = Box(it, i)
          /\ out' = Box(ot, NoOut(ot))
          /\ alpha' = One
          /\ beta' = Zero
          /\ res' = Box(ot, qz_a1b0(it, ot, i, rc, x64, u))
          /\ first' = <<>>
          /\ UNCHANGED <<rc, x64>>

\* qz_a1<in_t, out_t>()(in, out, beta)
QzA1 ==
    /\ pc = "idle"
    /\ \E it \in ElementTypes : \E ot \in ElementTypes :
       \E i \in QValues(it) : \E p \in OutValues(ot) : \E b \in Betas :
       \E u \in UBOutcomes :
          /\ pc' = "done"
          /\ op' = "qz_a1"
          /\ in_t' = it
          /\ out_t' = ot
          /\ in' = Box(it, i)
          /\ out' = Box(ot, p)
          /\ alpha' = One
          /\ beta' = b
          /\ res' = Box(ot, qz_a1(it, ot, i, p, b, rc, x64, u))
          /\ first' = <<>>
          /\ UNCHANGED <<rc, x64>>

\* qz_b0<in_t, out_t>()(in, alpha)
QzB0 ==
    /\ pc = "idle"
    /\ \E it \in ElementTypes : \E ot \in ElementTypes :
       \E i \in QValues(it) : \E a \in Alphas : \E u \in UBOutcomes :
          /\ pc' = "done"
          /\ op' = "qz_b0"
          /\ in_t' = it
          /\ out_t' = ot
          /\ in' = Box(it, i)
          /\ out' = Box(ot, NoOut(ot))
          /\ alpha' = a
          /\ beta' = Zero
          /\ res' = Box(ot, qz_b0(it, ot, i, a, rc, x64, u))
          /\ first' = <<>>
          /\ UNCHANGED <<rc, x64>>

\* qz<in_t, out_t>()(in, out, alpha, beta)
Qz ==
    /\ pc = "idle"
    /\ \E it \in ElementTypes : \E ot \in ElementTypes :
       \E i \in QValues(it) : \E p \in OutValues(ot) :
       \E a \in Alphas : \E b \in Betas : \E u \in UBOutcomes :
          /\ pc' = "done"
          /\ op' = "qz"
          /\ in_t' = it
          /\ out_t' = ot
          /\ in' = Box(it, i)
          /\ out' = Box(ot, p)
          /\ alpha' = a
          /\ beta' = b
          /\ res' = Box(ot, qz(it, ot, i, p, a, b, rc, x64, u))
          /\ first' = <<>>
          /\ UNCHANGED <<rc, x64>>

\* the caller takes the result; the next call starts from idle
Return ==
    /\ pc = "done"
    /\ pc' = "idle"
    /\ op' = "none"
    /\ in_t' = "float"
    /\ out_t' = "float"
    /\ in' = Zero
    /\ out' = Zero
    /\ alpha' = One
    /\ beta' = Zero
    /\ res' = Zero
    /\ first' = <<>>
    /\ UNCHANGED <<rc, x64>>

Next ==
    \/ Saturate
    \/ SaturateAgain
    \/ SaturateDouble
    \/ RoundAndSaturate
    \/ QzA1B0
    \/ QzA1
    \/ QzB0
    \/ Qz
    \/ Return

Spec == Init /\ [][Next]_vars

(***************************************************************************)
(* Reference values for the properties                                     *)
(***************************************************************************)
\* the clamp of an integer onto [lowest(t), max(t)]
ClampInt(t, i) ==
    IF i < numeric_limits_lowest(t) THEN numeric_limits_lowest(t)
    ELSE IF i > numeric_limits_max(t) THEN numeric_limits_max(t)
    ELSE i

\* a finite floating value that is an integer
IsWhole(v) == IsFin(v) /\ v.e >= 0

\* the clamp of an integer-valued floating value onto [lowest(t), max(t)], the bounds
\* compared exactly
ClampWhole(t, v) ==
    IF FLess(v, IntToDouble(numeric_limits_lowest(t)))
    THEN numeric_limits_lowest(t)
    ELSE IF FLess(IntToDouble(numeric_limits_max(t)), v)
    THEN numeric_limits_max(t)
    ELSE RoundToInt(v, "zero")

\* a finite float rounded to an integer under mode, then clamped onto
\* [lowest(t), max(t)]
ClampRounded(t, v, mode) ==
    IF ~InInt32(v)
    THEN (IF v.m > 0 THEN numeric_limits_max(t) ELSE numeric_limits_lowest(t))
    ELSE ClampInt(t, RoundToInt(v, mode))

\* the operands and the result of the last call
vin == Val(in)

vout == Val(out)

vres == Val(res)

\* alpha * in + beta * out of the last call, in float arithmetic
RealAffine ==
    FAdd(FMul(alpha, ToFloat(in_t, vin, rc), rc),
         FMul(beta, ToFloat(out_t, vout, rc), rc), rc)

\* the previous output cannot poison the affine value
OutHarmless == beta # Zero \/ is_integral(out_t) \/ IsFin(vout)

CrossSign == <<in_t, out_t>> \in {<<"uint8_t", "int8_t">>, <<"int8_t", "uint8_t">>}

TypeOK ==
    /\ pc \in {"idle", "done"}
    /\ rc \in RoundingModes
    /\ x64 \in BOOLEAN
    /\ out_t \in ElementTypes
    /\ Len(first) <= 1

(***************************************************************************)
(* C1: for an integral data_t and a value x of a wider signed or floating  *)
(* accumulator type, saturate<data_t>(x) is the clamp of x onto            *)
(* [lowest, max]; the double overload yields the same clamped value.       *)
(* (Stated for the finite floating values x that are integers.)            *)
(***************************************************************************)
C1_SaturateIsClamp ==
    /\ (op = "saturate" /\ is_integral(out_t) /\ in_t = "int32_t")
          => vres = ClampInt(out_t, vin)
    /\ (op = "saturate" /\ is_integral(out_t) /\ in_t = "float" /\ IsWhole(vin))
          => vres = ClampWhole(out_t, vin)
    /\ (op = "saturate_double" /\ IsWhole(vin))
          => vres = IntToDouble(ClampWhole(out_t, vin))

(***************************************************************************)
(* C2: for data_t in {int8_t, uint8_t} and every finite float f,           *)
(* round_and_saturate<data_t>(f) is f rounded to an integer under the      *)
(* active rounding mode and then clamped onto [lowest, max].               *)
(***************************************************************************)
C2_RoundThenClamp ==
    (op = "round_and_saturate" /\ out_t \in {"int8_t", "uint8_t"} /\ IsFin(vin))
        => vres = ClampRounded(out_t, vin, rc)

(***************************************************************************)
(* C3: for an integral out_t, qz(in, out, alpha, beta) is the affine value *)
(* alpha*in + beta*out rounded to the nearest integer and then clamped     *)
(* onto [lowest, max].                                                     *)
(***************************************************************************)
C3_QzRoundsAndClamps ==
    (op = "qz" /\ is_integral(out_t) /\ IsFin(RealAffine))
        => vres = ClampRounded(out_t, RealAffine, rc)

\* the int8 example of C3: in = 100, out = 50, alpha = 1, beta = 0.5 gives 125
C3_Example ==
    (op = "qz" /\ in_t = "int8_t" /\ out_t = "int8_t" /\ vin = 100 /\ vout = 50
        /\ alpha = One /\ beta = Fin(1, -1)) => vres = 125

(***************************************************************************)
(* C4: in every full-affine operator, with beta = 0 the result does not    *)
(* depend on the previous output, and it equals the scale-only result      *)
(* qz_b0(in, alpha).                                                       *)
(***************************************************************************)
C4_QzBetaZeroIgnoresOut ==
    (op = "qz" /\ beta = Zero) =>
        \A p \in OutValues(out_t) : \E u \in UBOutcomes :
            qz(in_t, out_t, vin, p, alpha, beta, rc, x64, u) = vres

C4_QzBetaZeroIsScaleOnly ==
    /\ C4_QzBetaZeroIgnoresOut
    /\ (op = "qz" /\ beta = Zero) =>
          \E u \in UBOutcomes : qz_b0(in_t, out_t, vin, alpha, rc, x64, u) = vres

(***************************************************************************)
(* C5: qz_a1 with beta = 0 does not read the previous output: whatever it  *)
(* is, the result is finite for a finite in and equals the identity-scale  *)
(* result qz_a1b0(in).                                                     *)
(***************************************************************************)
C5_QzA1BetaZeroIgnoresOut ==
    (op = "qz_a1" /\ beta = Zero) =>
        /\ (~is_integral(out_t) /\ (is_integral(in_t) \/ IsFin(vin)))
              => IsFin(vres)
        /\ \E u \in UBOutcomes : qz_a1b0(in_t, out_t, vin, rc, x64, u) = vres

(***************************************************************************)
(* C6: for every type pair and every in, qz_a1b0(in) equals                *)
(* qz(in, out, 1, 0), whichever path of qz_a1b0 is selected.               *)
(***************************************************************************)
C6_IdentityScaleIsQz ==
    op = "qz_a1b0" =>
        \A p \in OutValues(out_t) : \E u \in UBOutcomes :
            qz(in_t, out_t, vin, p, One, Zero, rc, x64, u) = vres

(***************************************************************************)
(* C7: for the float destination, qz_b0, qz_a1 and qz return the affine    *)
(* value itself, not rounded to an integer and not clamped;                *)
(* qz_b0(3.0, 2.5) is exactly 7.5.                                         *)
(***************************************************************************)
C7_FloatDestinationExact ==
    /\ (op \in {"qz_b0", "qz_a1", "qz"} /\ out_t = "float" /\ OutHarmless)
          => vres = RealAffine
    /\ (op = "qz_b0" /\ out_t = "float" /\ in_t = "float" /\ vin = Fin(3, 0)
          /\ alpha = Fin(5, -1)) => vres = Fin(15, -1)

C7_Witness ==
    /\ op = "qz_b0" /\ out_t = "float" /\ in_t = "float"
    /\ vin = Fin(3, 0) /\ alpha = Fin(5, -1) /\ vres = Fin(15, -1)

(***************************************************************************)
(* C8: saturate<data_t> is idempotent for every integral data_t: the       *)
(* result saturated again is the result, for the generic form and for the  *)
(* two cross-sign 8-bit specializations alike.                             *)
(***************************************************************************)
C8_SaturateIdempotent ==
    op = "saturate_twice" => vres = Val(first[1])

C8_Witness ==
    /\ op = "saturate_twice" /\ in_t = "uint8_t" /\ out_t = "int8_t"
    /\ vin = 200 /\ first = <<Box("int8_t", 127)>> /\ vres = 127

(***************************************************************************)
(* C9 as stated: each cross-sign 8-bit fast path equals the generic        *)
(* two-compare saturate with the bounds cast to the 8-bit source type.     *)
(***************************************************************************)
C9_FastPathIsGenericInSourceType ==
    (op = "saturate" /\ CrossSign)
        => vres = saturate_integral(out_t, in_t, vin, "indefinite")

(***************************************************************************)
(* C9 as amended: each cross-sign 8-bit fast path equals, for all 256      *)
(* inputs, the generic two-compare saturate evaluated in a wider signed    *)
(* accumulator (int32_t), which is the clamp onto [lowest, max];           *)
(* saturate<int8_t, uint8_t>(200) = 127.                                   *)
(***************************************************************************)
C9_FastPathIsClamp ==
    /\ (op = "saturate" /\ CrossSign)
          => /\ vres = saturate_integral(out_t, "int32_t", vin, "indefinite")
             /\ vres = ClampInt(out_t, vin)
    /\ (op = "saturate" /\ in_t = "uint8_t" /\ out_t = "int8_t" /\ vin = 200)
          => vres = 127

C9_Witness ==
    /\ op = "saturate" /\ in_t = "uint8_t" /\ out_t = "int8_t"
    /\ vin = 200 /\ vres = 127

(***************************************************************************)
(* C10: for the 16-bit float destinations, each of qz_a1b0, qz_b0, qz_a1   *)
(* and qz returns the affine value converted to the 16-bit format, never   *)
(* rounded to an integer first.                                            *)
(***************************************************************************)
C10_HalfDestinationUnrounded ==
    (op \in {"qz_a1b0", "qz_b0", "qz_a1", "qz"}
        /\ out_t \in {"bfloat16_t", "float16_t"} /\ OutHarmless)
        => vres = FloatTo(out_t, RealAffine)

=============================================================================
